---------------------------- MODULE Spec2Model ----------------------------
(***************************************************************************)
(* A model of MagicMirror.py (jolaf/magic-mirror-crawler): the URL         *)
(* canonicalizer, the file database (URL records, content blobs, the       *)
(* "latest" link), the crawler (crawl / downloadURL / markLatest) and the  *)
(* serving side (serve / do_GET).                                          *)
(*                                                                         *)
(* Strings are TLA+ strings; a character is a string of length 1.          *)
(***************************************************************************)
EXTENDS Integers, Sequences, FiniteSets, TLC

(***************************************************************************)
(* String helpers (Python str methods used by the program).                *)
(***************************************************************************)
UpperChars == <<"A","B","C","D","E","F","G","H","I","J","K","L","M",
                "N","O","P","Q","R","S","T","U","V","W","X","Y","Z">>
LowerChars == <<"a","b","c","d","e","f","g","h","i","j","k","l","m",
                "n","o","p","q","r","s","t","u","v","w","x","y","z">>
DigitChars == <<"0","1","2","3","4","5","6","7","8","9">>

\* position of character c in the table t, 0 when absent
PosIn(c, t) ==
    IF \E i \in 1..Len(t) : t[i] = c
    THEN CHOOSE i \in 1..Len(t) : t[i] = c
    ELSE 0

LowerChar(c) ==
    LET p == PosIn(c, UpperChars) IN IF p = 0 THEN c ELSE LowerChars[p]

RECURSIVE StrLower(_)
\* str.lower(), by halves to keep the recursion shallow
StrLower(s) ==
    IF s = "" THEN ""
    ELSE IF Len(s) = 1 THEN LowerChar(s)
    ELSE LET h == Len(s) \div 2
         IN  StrLower(SubSeq(s, 1, h)) \o StrLower(SubSeq(s, h + 1, Len(s)))

IsDigitChar(c) == PosIn(c, DigitChars) # 0

\* whether every character of s is in the set cs
AllIn(s, cs) == \A i \in 1..Len(s) : SubSeq(s, i, i) \in cs

\* str.isdigit(): non-empty and every character a digit
StrIsDigit(s) == s # "" /\ \A i \in 1..Len(s) : IsDigitChar(SubSeq(s, i, i))

RECURSIVE StrToNat(_, _)
\* int(s) for a string of digits, acc the value of the digits read so far
StrToNat(s, acc) ==
    IF s = "" THEN acc
    ELSE StrToNat(Tail(s), acc * 10 + (PosIn(Head(s), DigitChars) - 1))

RECURSIVE NatToStr(_)
\* str(n) / '%d' % n
NatToStr(n) ==
    IF n < 10 THEN DigitChars[n + 1]
    ELSE NatToStr(n \div 10) \o DigitChars[(n % 10) + 1]

StartsWith(s, p) == Len(s) >= Len(p) /\ SubSeq(s, 1, Len(p)) = p
EndsWith(s, p)   == Len(s) >= Len(p) /\ SubSeq(s, Len(s) - Len(p) + 1, Len(s)) = p
\* s[n:] and s[:n] for 0 <= n
DropFirst(s, n)  == IF n >= Len(s) THEN "" ELSE SubSeq(s, n + 1, Len(s))
TakeFirst(s, n)  == IF n >= Len(s) THEN s ELSE IF n = 0 THEN "" ELSE SubSeq(s, 1, n)
\* s[:-n] for n > 0
DropLast(s, n)   == IF n >= Len(s) THEN "" ELSE SubSeq(s, 1, Len(s) - n)

\* smallest index >= i at which a character of the set cs occurs in s, 0 when none
FindFrom(s, cs, i) ==
    LET hits == {j \in i..Len(s) : SubSeq(s, j, j) \in cs}
    IN  IF hits = {} THEN 0 ELSE CHOOSE j \in hits : \A k \in hits : j <= k

\* largest index <= i at which a character of the set cs occurs in s, 0 when none
RFindFrom(s, cs, i) ==
    LET hits == {j \in 1..i : SubSeq(s, j, j) \in cs}
    IN  IF hits = {} THEN 0 ELSE CHOOSE j \in hits : \A k \in hits : j >= k

(***************************************************************************)
(* URL canonicalizer: MagicMirror.parseURL .. processMirrorURL.            *)
(***************************************************************************)
HTTP  == "http"
HTTPS == "https"
FTP   == "ftp"
WWW_PREFIX == "www."
GZIP_SUFFIX == ".gz"
ZERO_HASH == "0"

\* STANDARD_PORTS.get(scheme); 0 stands for None
StandardPort(scheme) ==
    CASE scheme = HTTP  -> 80
      [] scheme = HTTPS -> 443
      [] scheme = FTP   -> 21
      [] OTHER          -> 0

SchemeChars ==
    {LowerChars[i] : i \in 1..Len(LowerChars)} \cup
    {UpperChars[i] : i \in 1..Len(UpperChars)} \cup
    {DigitChars[i] : i \in 1..Len(DigitChars)} \cup {"+", "-", "."}

\* the value of F at e, with e evaluated once (a local variable assignment)
Bind(e, F(_)) == CHOOSE r \in {F(x) : x \in {e}} : TRUE

\* urllib.parse.urlsplit as parseURL uses it:
\* [scheme, netloc, path, query, fragment]
urlsplit(url) ==
    Bind(FindFrom(url, {":"}, 1), LAMBDA i :
    Bind(/\ i > 1
         /\ ~IsDigitChar(Head(url)) /\ Head(url) \notin {"+", "-", "."}
         /\ AllIn(TakeFirst(url, i - 1), SchemeChars), LAMBDA hasSch :
    Bind(IF hasSch THEN DropFirst(url, i) ELSE url, LAMBDA rest1 :
    Bind(IF StartsWith(rest1, "//") THEN FindFrom(rest1, {"/", "?", "#"}, 3)
         ELSE 0 - 1, LAMBDA j :            \* -1: no netloc
    Bind(IF j < 0 THEN rest1
         ELSE IF j = 0 THEN "" ELSE DropFirst(rest1, j - 1), LAMBDA rest2 :
    Bind(FindFrom(rest2, {"#"}, 1), LAMBDA f :
    Bind(IF f = 0 THEN rest2 ELSE TakeFirst(rest2, f - 1), LAMBDA rest3 :
    Bind(FindFrom(rest3, {"?"}, 1), LAMBDA q :
        [scheme   |-> IF hasSch THEN StrLower(TakeFirst(url, i - 1)) ELSE "",
         netloc   |-> IF j < 0 THEN ""
                      ELSE IF j = 0 THEN DropFirst(rest1, 2)
                      ELSE SubSeq(rest1, 3, j - 1),
         path     |-> IF q = 0 THEN rest3 ELSE TakeFirst(rest3, q - 1),
         query    |-> IF q = 0 THEN "" ELSE DropFirst(rest3, q),
         fragment |-> IF f = 0 THEN "" ELSE DropFirst(rest2, f)]))))))))

\* an exception raised instead of a value returned
Raised == "ValueError"
\* SplitResult.port raising ValueError
PortError == 0 - 1
MaxPort == 65535

\* SplitResult.hostname ('' for None) and SplitResult.port (0 for None,
\* PortError when the port is not a number of 0..65535)
HostInfo(netloc) ==
    Bind(DropFirst(netloc, RFindFrom(netloc, {"@"}, Len(netloc))), LAMBDA hostinfo :
    Bind(FindFrom(hostinfo, {":"}, 1), LAMBDA c :
    Bind(IF c = 0 THEN "" ELSE DropFirst(hostinfo, c), LAMBDA port :
        [hostname |-> StrLower(IF c = 0 THEN hostinfo ELSE TakeFirst(hostinfo, c - 1)),
         port     |-> IF port = "" THEN 0
                      ELSE IF StrIsDigit(port) /\ Len(port) <= 5
                              /\ StrToNat(port, 0) <= MaxPort
                      THEN StrToNat(port, 0) ELSE PortError])))

\* MagicMirror.parseURL: (scheme, hostName, port, path, query, fragment);
\* port = PortError stands for the ValueError of line 208 leaving parseURL
parseURL(url) ==
    Bind(urlsplit(url), LAMBDA sp :
    Bind(HostInfo(sp.netloc), LAMBDA hi :
        [scheme   |-> sp.scheme,
         hostName |-> IF StartsWith(hi.hostname, WWW_PREFIX)
                      THEN DropFirst(hi.hostname, Len(WWW_PREFIX)) ELSE hi.hostname,
         port     |-> IF hi.port > 0 /\ hi.port = StandardPort(sp.scheme)
                      THEN 0 ELSE hi.port,
         path     |-> sp.path, query |-> sp.query, fragment |-> sp.fragment]))

\* urllib.parse.urlunsplit for a scheme that uses a netloc
urlunsplit(scheme, netloc, path, query, fragment) ==
    LET p1 == IF netloc # "" \/ (scheme # "" /\ ~StartsWith(path, "//"))
              THEN "//" \o netloc \o
                   (IF path # "" /\ ~StartsWith(path, "/") THEN "/" \o path ELSE path)
              ELSE path
        p2 == IF scheme # "" THEN scheme \o ":" \o p1 ELSE p1
        p3 == IF query # "" THEN p2 \o "?" \o query ELSE p2
    IN  IF fragment # "" THEN p3 \o "#" \o fragment ELSE p3

\* MagicMirror.unparseURL
unparseURL(scheme, netloc, path, query, fragment) ==
    Bind(urlunsplit(scheme, netloc, path, query, fragment), LAMBDA url :
        IF query # "" \/ fragment # "" \/ ~EndsWith(url, "/") THEN url
        ELSE DropLast(url, 1))

\* MagicMirror.dataHash of a text: the digest is taken to be collision free,
\* so the digest of a string is written as the string tagged "md5:"
dataHash(data) == "md5:" \o data

\* MagicMirror.getUrlHash
getUrlHash(scheme, netloc, path, query, fragment) ==
    dataHash(unparseURL(scheme, netloc, path, query, fragment))

\* '.'.join(tokens) for a tuple of strings
RECURSIVE JoinDot(_)
JoinDot(ts) ==
    IF ts = <<>> THEN ""
    ELSE IF Len(ts) = 1 THEN ts[1] ELSE ts[1] \o "." \o JoinDot(Tail(ts))

\* MagicMirror.processHostName
processHostName(url) ==
    Bind(parseURL(url), LAMBDA p0 :
    Bind(IF p0.scheme = "" /\ p0.port # PortError
         THEN parseURL(HTTP \o "://" \o url) ELSE p0, LAMBDA p :
        IF p.port = PortError THEN Raised ELSE
        JoinDot((IF p.scheme # "" /\ p.scheme # HTTP THEN <<p.scheme>> ELSE <<>>)
                \o <<p.hostName>>
                \o (IF p.port # 0 THEN <<NatToStr(p.port)>> ELSE <<>>))))

\* MagicMirror.processOriginalURL
processOriginalURL(url) ==
    Bind(parseURL(url), LAMBDA p :
        IF p.port = PortError THEN Raised ELSE
    Bind((IF p.scheme # HTTP THEN p.scheme \o "." ELSE "") \o p.hostName
         \o (IF p.port # 0 THEN ":" \o NatToStr(p.port) ELSE ""), LAMBDA netloc :
        getUrlHash(HTTP, netloc, p.path, p.query, p.fragment)))

\* (None, None) of processMirrorURL and the (None,)*4 of loadURL / serve
NoneVal == "None"

\* MagicMirror.processMirrorURL: [hostName, urlHash]
processMirrorURL(mirrorSuffix, host, path) ==
    Bind(parseURL(HTTP \o "://" \o host \o path), LAMBDA p :
        IF p.port = PortError THEN [hostName |-> Raised, urlHash |-> Raised]
        ELSE IF ~EndsWith(p.hostName, StrLower(mirrorSuffix))
        THEN [hostName |-> NoneVal, urlHash |-> NoneVal]
        ELSE
    Bind(DropLast(p.hostName, Len(mirrorSuffix) + 1), LAMBDA hostName :
    Bind(RFindFrom(hostName, {"."}, Len(hostName)), LAMBDA d :
    Bind(DropFirst(hostName, d), LAMBDA last :
    Bind(IF StrIsDigit(last)
         THEN (IF d = 0 THEN "" ELSE TakeFirst(hostName, d - 1)) \o ":" \o last
         ELSE hostName, LAMBDA netloc :
        [hostName |-> hostName,
         urlHash  |-> getUrlHash(HTTP, netloc, p.path, p.query, p.fragment)])))))


(***************************************************************************)
(* Bounds and the finite inputs of the model.                              *)
(***************************************************************************)
MaxRuns   == 2      \* crawl() calls in a behaviour
MaxBatch  == 2      \* start URLs on one command line
MaxStream == 2      \* URLs the discovery collaborator yields in one run
MaxDay    == 2      \* calendar days (TIMESTAMP_FORMAT has day resolution)

MIN_SIZE_FOR_GZIP      == 513
MIN_GZIP_EFFECTIVENESS == 90
DigestHexLen           == 32     \* 2 * dbHash().digest_size

MirrorSuffix == "my.archive.com"

\* start URLs given to "crawl"
StartURLs == {"http://Some.Host.com", "http://Some.Host.com:x"}

\* URLs the discovery collaborator (wget) may print
StreamURLs == {"http://www.some.host.com/index.html",
               "http://Some.Host.com/index.html",
               "https://some.host.com/a",
               "http://some.host.com/robots.txt"}

\* response bodies of the fetch collaborator: name, logical length, length
\* of the gzip stream GzipFile makes of it, hex digest of its bytes
Bodies == {
    [name |-> "",     len |-> 0,   zip |-> 20,
     md5 |-> "d41d8cd98f00b204e9800998ecf8427e"],
    [name |-> "abcd", len |-> 4,   zip |-> 24,
     md5 |-> "e2fc714c4727ee9395f324cd2e7f331f"],
    [name |-> "rep",  len |-> 600, zip |-> 40,
     md5 |-> "0a1b2c3d4e5f60718293a4b5c6d7e8f9"],
    \* bodies at the limits of the compression decision
    [name |-> "b512", len |-> 512, zip |-> 100,
     md5 |-> "11111111111111111111111111111111"],
    [name |-> "b513", len |-> 513, zip |-> 461,
     md5 |-> "22222222222222222222222222222222"],
    [name |-> "b513x", len |-> 513, zip |-> 462,
     md5 |-> "33333333333333333333333333333333"],
    [name |-> "b600", len |-> 600, zip |-> 540,
     md5 |-> "44444444444444444444444444444444"] }

BodyOf(n) == CHOOSE b \in Bodies : b.name = n

\* what requests.get may answer: content type and body
Responses == {
    [ctype |-> "text/plain", body |-> ""],
    [ctype |-> "text/plain", body |-> "abcd"],
    [ctype |-> "text/html",  body |-> "rep"] }

\* host directories of the database: one per mirrored host label
HostDirs == {processHostName(u) : u \in StartURLs} \ {Raised}

\* path (and query) a browser sends for url
PathQuery(url) ==
    Bind(urlsplit(url), LAMBDA sp :
    Bind(IF sp.path = "" THEN "/" ELSE sp.path, LAMBDA p :
        IF sp.query # "" THEN p \o "?" \o sp.query ELSE p))

\* requests the serving side receives: <<Host header, path>>
Requests ==
    {<<processHostName(u) \o "." \o MirrorSuffix, PathQuery(u)>> : u \in StreamURLs}
    \cup {<<MirrorSuffix, "/">>, <<"unknown.org." \o MirrorSuffix, "/">>,
          <<"other.example.org", "/">>}

ROBOTS_TXT == "robots.txt"

\* host.split(':')[0]
HostOnly(host) ==
    LET c == FindFrom(host, {":"}, 1)
    IN  IF c = 0 THEN host ELSE TakeFirst(host, c - 1)

\* do_GET line 535: whether the request is answered with the root page
IsRootPage(host) ==
    HostOnly(host) = MirrorSuffix \/ ~EndsWith(HostOnly(host), MirrorSuffix)

\* The canonicalizer's results on the URLs and requests above. The operators
\* are pure functions of their arguments; the tables are computed once, in
\* Init, and read through the variable canon.
CanonTables ==
    [host   |-> [u \in StartURLs |-> processHostName(u)],
     hash   |-> [u \in StreamURLs |-> processOriginalURL(u)],
     robots |-> [u \in StreamURLs |-> EndsWith(u, ROBOTS_TXT)],
     mirror |-> [q \in Requests |-> processMirrorURL(MirrorSuffix, q[1], q[2])],
     root   |-> [q \in Requests |-> IsRootPage(q[1])],
     req    |-> [u \in StreamURLs |->
                    <<processHostName(u) \o "." \o MirrorSuffix, PathQuery(u)>>],
     dirs   |-> HostDirs,
     reqs   |-> Requests]

(***************************************************************************)
(* State.                                                                  *)
(***************************************************************************)
VARIABLES
    canon,      \* CanonTables, never changed
    today,      \* the calendar day datetime.now() falls in
    urls,       \* URL record files: <<host, day, urlHash>> -> tuple of lines
    data,       \* blob files: <<host, day, contentHash>> -> [body, gz, size]
    latest,     \* the "latest" symlink of each host directory, 0: no link
    lastMod,    \* day label of the snapshot directory written last, per host
    pc,         \* where the crawler process is
    batch,      \* run(): the start URLs not crawled yet
    runs,       \* crawl() calls so far
    loc,        \* crawler database.targetDir: <<host, day>>
    urlCache,   \* crawl(): urlCache
    left,       \* URLs wget will still print in this run, -1: Popen fails
    rc,         \* wget.returncode
    cur,        \* downloadURL: url
    fetched,    \* downloadURL: contentType and the body in tempFile
    chash,      \* downloadURL: contentHash
    old,        \* downloadURL: (oldURL, .., oldContentHash) of loadURL
    saved,      \* whether the last downloadURL called saveURL
    dataSize,   \* downloadURL: size loadData found for contentHash (line 305),
                \* -1 for None
    failed,     \* what raised in this run: "no", "source" (wget), "url"
    outcome,    \* of the current or last run: none, running, completed, aborted,
                \* crashed (the exception left crawl)
    latestAtStart, \* latest[host] when the current or last run began
    committed,  \* URLs whose record this run saved
    completed,  \* hosts with a crawl that ended with its latest link made
    resp,       \* the response do_GET sent in the last step, NoResp if the
                \* last step was not a request
    law,        \* the canonicalizer applied to a pair of URLs (NoLaw in the
                \* crawler's and server's runs)
    srv         \* the serving process step by step: the database object's
                \* targetDir and the requests sent to the server

crawlVars == <<canon, today, urls, data, latest, lastMod, pc, batch, runs, loc,
               urlCache, left, rc, cur, fetched, chash, old, saved, dataSize,
               failed,
               outcome, latestAtStart, committed, completed, resp>>

vars == <<crawlVars, law, srv>>

fsVars    == <<urls, data, latest, lastMod>>
localVars == <<cur, fetched, chash, old, saved, dataSize>>

NoRec   == <<NoneVal, NoneVal, NoneVal, NoneVal>>
NoFetch == [ctype |-> "", body |-> ""]
NoResp  == [status |-> 0, kind |-> "none", url |-> "", ctype |-> "",
            length |-> 0, body |-> "", exc |-> FALSE, degraded |-> FALSE,
            index |-> {}]

Put(f, k, v) == [x \in DOMAIN f \cup {k} |-> IF x = k THEN v ELSE f[x]]

NoLaw == [stage |-> "none"]
NoSrv == [targetDir |-> "", h |-> <<>>]

\* the crawler before run() is called
ProcInit ==
    /\ canon = CanonTables
    /\ today = 1
    /\ pc = "idle"
    /\ batch = <<>>
    /\ runs = 0
    /\ loc = <<"", 0>>
    /\ urlCache = {}
    /\ left = 0
    /\ rc = 0
    /\ cur = ""
    /\ fetched = NoFetch
    /\ chash = ""
    /\ old = NoRec
    /\ saved = FALSE
    /\ dataSize = 0 - 1
    /\ failed = "no"
    /\ outcome = "none"
    /\ latestAtStart = 0
    /\ committed = {}
    /\ completed = {}
    /\ resp = NoResp

\* an empty database
CrawlerInit ==
    /\ ProcInit
    /\ urls = <<>>
    /\ data = <<>>
    /\ latest = [h \in canon.dirs |-> 0]
    /\ lastMod = [h \in canon.dirs |-> 0]

Init ==
    /\ CrawlerInit
    /\ law = NoLaw
    /\ srv = NoSrv

(***************************************************************************)
(* MagicMirrorFileDatabase.                                                *)
(***************************************************************************)
\* loadURL at targetDir dir: the lines of the record file, NoRec when there
\* is no such file
loadURL(dir, key) ==
    LET k == <<dir[1], dir[2], key>>
    IN  IF k \in DOMAIN urls THEN urls[k] ELSE NoRec

\* loadData at targetDir dir: getsize of the blob file, -1 for (None, None)
loadDataSize(dir, key) ==
    LET k == <<dir[1], dir[2], key>>
    IN  IF k \in DOMAIN data THEN data[k].size ELSE 0 - 1

\* setLocation(hostName) without a time stamp: targetDir is mirrorDir/latest,
\* which names a snapshot only through the symlink
ReadLocation(hostName) ==
    <<hostName, IF hostName \in DOMAIN latest THEN latest[hostName] ELSE 0>>

\* number of bytes of a complete blob file
FullSize(body, gz) == IF gz THEN BodyOf(body).zip ELSE BodyOf(body).len

\* listURLs: (host, basename of the link target) of every host directory
\* whose latest link names an existing directory
SnapshotExists(h, d) ==
    \/ \E k \in DOMAIN urls : k[1] = h /\ k[2] = d
    \/ \E k \in DOMAIN data : k[1] = h /\ k[2] = d

listURLs ==
    {<<h, latest[h]>> : h \in {x \in DOMAIN latest : latest[x] # 0 /\ SnapshotExists(x, latest[x])}}

(***************************************************************************)
(* The crawler: MagicMirrorCrawler.run, crawl, MagicMirror.downloadURL,    *)
(* wgetUrlSource, markLatest.                                              *)
(***************************************************************************)
\* downloadURL line 338: an existing record is kept (return) unless it holds
\* the empty page and the new content is not empty
KeepOld_never(oldContentHash, contentHash) == FALSE
KeepOld_always(oldContentHash, contentHash) == TRUE
KeepOld(oldContentHash, contentHash) ==
    oldContentHash # ZERO_HASH \/ contentHash = ZERO_HASH

\* downloadURL lines 311-326: whether the body is stored gzipped
Gzipped_above(contentLength, zipLength) ==
    /\ contentLength > MIN_SIZE_FOR_GZIP
    /\ zipLength * 100 < contentLength * MIN_GZIP_EFFECTIVENESS

Gzipped(contentLength, zipLength) ==
    /\ contentLength >= MIN_SIZE_FOR_GZIP
    /\ zipLength * 100 < contentLength * MIN_GZIP_EFFECTIVENESS

BatchesOf(n) ==
    {<<a>> : a \in StartURLs} \cup
    (IF n >= 2 THEN {<<a, b>> : a \in StartURLs, b \in StartURLs} ELSE {}) \cup
    (IF n >= 3 THEN {<<a, b, c>> : a \in StartURLs, b \in {"http://Some.Host.com"},
                                   c \in StartURLs} ELSE {})

\* main: "crawl databaseDir startURL startURL ..." calls run(sourceURLs)
Run ==
    /\ pc = "idle" /\ batch = <<>> /\ runs < MaxRuns
    /\ \E b \in BatchesOf(MaxBatch) :
          /\ Len(b) <= MaxRuns - runs
          /\ batch' = b
    /\ UNCHANGED <<canon, law, srv, today, fsVars, pc, runs, loc, urlCache, left, rc, localVars,
                   failed, outcome, latestAtStart, committed, completed>>
    /\ resp' = NoResp

\* crawl(sourceURL), lines 415-420: time stamp, setLocation, the source is
\* started; wget prints n more URLs, or Popen raises (n = -1). Lines 415-417
\* are outside the try: when processHostName raises, the exception leaves
\* crawl, run and main, and the process ends with the rest of the batch
\* not crawled.
Crawl ==
    /\ pc = "idle" /\ batch # <<>>
    /\ runs' = runs + 1
    /\ LET h == canon.host[Head(batch)]
       IN  IF h = Raised
           THEN /\ batch' = <<>>
                /\ outcome' = "crashed"
                /\ UNCHANGED <<pc, loc, latestAtStart, left, urlCache, rc, failed,
                               committed>>
           ELSE /\ loc' = <<h, today>>
                /\ latestAtStart' = latest[h]
                /\ \E n \in (0 - 1)..MaxStream : left' = n
                /\ urlCache' = {}
                /\ pc' = "next"
                /\ rc' = 0
                /\ failed' = "no"
                /\ outcome' = "running"
                /\ committed' = {}
                /\ UNCHANGED batch
    /\ UNCHANGED <<canon, law, srv, today, fsVars, localVars, completed>>
    /\ resp' = NoResp

\* the frames of downloadURL and of crawl's loop are left: their locals are
\* gone
LeaveLoop ==
    /\ cur' = "" /\ fetched' = NoFetch /\ chash' = "" /\ old' = NoRec
    /\ saved' = FALSE /\ dataSize' = 0 - 1
    /\ urlCache' = {}

\* crawl lines 425-427 with markLatest moved after the handler: a failed run
\* goes on to mark its snapshot
CrawlExcept_marks ==
    /\ pc' = "unlink"
    /\ outcome' = "aborted"
    /\ LeaveLoop
    /\ UNCHANGED batch

\* crawl lines 425-427: the exception ends the run, run() goes on to the next
\* start URL
CrawlExcept ==
    /\ pc' = "idle"
    /\ outcome' = "aborted"
    /\ LeaveLoop
    /\ batch' = Tail(batch)

\* wgetUrlSource line 395 raising (wget cannot be started): the exception
\* reaches crawl's handler before any URL
PopenFails ==
    /\ pc = "next" /\ left = 0 - 1
    /\ CrawlExcept
    /\ failed' = "source"
    /\ left' = 0
    /\ UNCHANGED <<canon, law, srv, today, fsVars, runs, loc, rc, latestAtStart, committed,
                   completed>>
    /\ resp' = NoResp

\* crawl line 421 (url not in urlCache): the set holds the URL strings the
\* run has ingested
Seen_identity(u) == \E v \in urlCache : canon.hash[v] = canon.hash[u]
Seen(u) == u \in urlCache

\* wgetUrlSource yields the next URL; crawl lines 420-421 skip it or call
\* downloadURL
Yield ==
    /\ pc = "next" /\ left > 0
    /\ left' = left - 1
    /\ \E u \in StreamURLs :
          /\ cur' = u
          /\ fetched' = NoFetch /\ chash' = "" /\ old' = NoRec /\ saved' = FALSE
          /\ dataSize' = 0 - 1
          /\ IF ~Seen(u) /\ ~canon.robots[u]
             THEN pc' = "fetch"
             ELSE pc' = "next"
    /\ UNCHANGED <<canon, law, srv, today, fsVars, batch, runs, loc, urlCache, rc, failed,
                   outcome, latestAtStart, committed, completed>>
    /\ resp' = NoResp

\* wgetUrlSource lines 401-405: the stream ends, a non-zero return code is
\* only printed; crawl line 424 calls markLatest
StreamEnd ==
    /\ pc = "next" /\ left = 0
    /\ \E r \in {0, 8} : rc' = r
    /\ pc' = "unlink"
    /\ LeaveLoop
    /\ UNCHANGED <<canon, law, srv, today, fsVars, batch, runs, loc, left, failed, outcome,
                   latestAtStart, committed, completed>>
    /\ resp' = NoResp

\* downloadURL lines 342-345 (re-raise) into crawl's handler
Raise ==
    /\ failed' = "url"
    /\ CrawlExcept

\* downloadURL lines 286-302: the fetch, body spooled and hashed
Fetch ==
    /\ pc = "fetch"
    /\ \/ /\ \E r \in Responses : fetched' = r
          /\ pc' = "data"
          /\ UNCHANGED <<batch, failed, outcome, urlCache, cur, chash, old, saved,
                         dataSize>>
       \/ Raise                          \* requests.get or a header lookup raises
    /\ UNCHANGED <<canon, law, srv, today, fsVars, runs, loc, left, rc, latestAtStart,
                   committed, completed>>
    /\ resp' = NoResp

\* downloadURL line 303 (if dataSize): whether the body has bytes to store
HasData_always(contentLength) == TRUE
HasData(contentLength) == contentLength # 0

\* downloadURL line 306 (contentLength == dataSize): whether the blob found
\* is taken for the stored content
BlobMatches_exists(contentLength, storedSize) == storedSize >= 0
BlobMatches(contentLength, storedSize) == contentLength = storedSize

\* downloadURL lines 302-332 up to the open() of saveData: the empty body gets
\* ZERO_HASH, an existing blob of the expected size is kept, otherwise the
\* blob file is opened for writing (created or truncated)
Probe ==
    /\ pc = "data"
    /\ LET b    == BodyOf(fetched.body)
           gz   == Gzipped(b.len, b.zip)
           key  == IF gz THEN b.md5 \o GZIP_SUFFIX ELSE b.md5
           go   == UNCHANGED <<batch, failed, outcome, urlCache, cur, fetched,
                               old, saved>>
       IN  IF ~HasData(b.len)
           THEN /\ chash' = ZERO_HASH /\ pc' = "record"
                /\ go /\ UNCHANGED <<data, lastMod, dataSize>>
           ELSE IF BlobMatches(b.len, loadDataSize(loc, b.md5))
           THEN /\ chash' = b.md5 /\ pc' = "record"
                /\ dataSize' = loadDataSize(loc, b.md5)
                /\ go /\ UNCHANGED <<data, lastMod>>
           ELSE \/ /\ chash' = key /\ pc' = "write"
                   /\ dataSize' = loadDataSize(loc, b.md5)
                   /\ data' = Put(data, <<loc[1], loc[2], key>>,
                                  [body |-> b.name, gz |-> gz, size |-> 0])
                   /\ lastMod' = [lastMod EXCEPT ![loc[1]] = loc[2]]
                   /\ go
                \/ /\ Raise              \* makedirs or open raises
                   /\ UNCHANGED <<data, lastMod>>
    /\ UNCHANGED <<canon, law, srv, today, urls, latest, runs, loc, left, rc, latestAtStart,
                   committed, completed>>
    /\ resp' = NoResp

\* saveData lines 150-155 and the assertions of lines 325, 330: the bytes are
\* written, or the write stops short and raises
Write ==
    /\ pc = "write"
    /\ LET k    == <<loc[1], loc[2], chash>>
           full == FullSize(data[k].body, data[k].gz)
       IN  \/ /\ data' = [data EXCEPT ![k].size = full]
              /\ pc' = "record"
              /\ UNCHANGED <<batch, failed, outcome, urlCache, localVars>>
           \/ /\ data' = [data EXCEPT ![k].size = full \div 2]
              /\ Raise
    /\ UNCHANGED <<canon, law, srv, today, urls, latest, lastMod, runs, loc, left, rc,
                   latestAtStart, committed, completed>>
    /\ resp' = NoResp

\* downloadURL lines 334-341 and crawl line 423: the record of the URL's
\* identity is loaded, kept or (over)written
Record ==
    /\ pc = "record"
    /\ LET urlHash == canon.hash[cur]
           k       == <<loc[1], loc[2], urlHash>>
           rec     == loadURL(loc, urlHash)
           new     == <<cur, fetched.ctype, NatToStr(BodyOf(fetched.body).len), chash>>
           go      == /\ old' = rec
                      /\ urlCache' = urlCache \cup {cur}
                      /\ pc' = "next"
                      /\ UNCHANGED <<batch, failed, outcome, cur, fetched, chash,
                                     dataSize>>
       IN  IF urlHash = Raised \/ Len(rec) # 4
           THEN \* processOriginalURL raises, or the record file is cut
                \* short and the unpacking of line 335 raises
                /\ Raise
                /\ UNCHANGED <<urls, lastMod, committed>>
           ELSE IF rec[1] # NoneVal /\ KeepOld(rec[4], chash)
           THEN /\ saved' = FALSE
                /\ go
                /\ UNCHANGED <<urls, lastMod, committed>>
           ELSE \/ /\ urls' = Put(urls, k, new)
                   /\ lastMod' = [lastMod EXCEPT ![loc[1]] = loc[2]]
                   /\ committed' = committed \cup {cur}
                   /\ saved' = TRUE
                   /\ go
                \/ \* the file is opened (created or truncated) and the write
                   \* raises
                   /\ urls' = Put(urls, k, <<>>)
                   /\ lastMod' = [lastMod EXCEPT ![loc[1]] = loc[2]]
                   /\ Raise
                   /\ UNCHANGED committed
                \/ \* makedirs or open raises
                   /\ Raise
                   /\ UNCHANGED <<urls, lastMod, committed>>
    /\ UNCHANGED <<canon, law, srv, today, data, latest, runs, loc, left, rc, latestAtStart,
                   completed>>
    /\ resp' = NoResp

\* mirrorDir is a directory once a file was written below it
HostDirExists(h) == \E k \in DOMAIN urls \cup DOMAIN data : k[1] = h

\* markLatest returns (its exceptions are only printed, lines 131-134) and so
\* does crawl
CrawlReturns ==
    /\ pc' = "idle"
    /\ outcome' = "completed"
    /\ batch' = Tail(batch)

\* markLatest lines 126-128: an existing link is removed, or remove raises
Unlink ==
    /\ pc = "unlink"
    /\ IF latest[loc[1]] # 0
       THEN \/ /\ latest' = [latest EXCEPT ![loc[1]] = 0]
               /\ pc' = "symlink"
               /\ UNCHANGED <<batch, outcome>>
            \/ /\ CrawlReturns
               /\ UNCHANGED latest
       ELSE /\ pc' = "symlink"
            /\ UNCHANGED <<latest, batch, outcome>>
    /\ UNCHANGED <<canon, law, srv, today, urls, data, lastMod, runs, loc, urlCache, left, rc,
                   localVars, failed, latestAtStart, committed, completed>>
    /\ resp' = NoResp

\* markLatest lines 129-134 and the return of crawl: the link is made, or
\* symlink raises (no link support, no mirrorDir, an I/O error)
Symlink ==
    /\ pc = "symlink"
    /\ \/ /\ HostDirExists(loc[1])
          /\ latest' = [latest EXCEPT ![loc[1]] = loc[2]]
          /\ completed' = completed \cup {loc[1]}
       \/ UNCHANGED <<latest, completed>>
    /\ CrawlReturns
    /\ UNCHANGED <<canon, law, srv, today, urls, data, lastMod, runs, loc, urlCache, left, rc,
                   localVars, failed, latestAtStart, committed>>
    /\ resp' = NoResp

\* the calendar day changes; the crawler reads the clock only in crawl line 415
Tick ==
    /\ pc = "idle" /\ today < MaxDay
    /\ today' = today + 1
    /\ UNCHANGED <<canon, law, srv, fsVars, pc, batch, runs, loc, urlCache, left, rc,
                   localVars, failed, outcome, latestAtStart, committed, completed>>
    /\ resp' = NoResp

(***************************************************************************)
(* The serving side: MagicMirrorServer.serve and                           *)
(* MirrorHTTPRequestHandler.do_GET.                                        *)
(***************************************************************************)
\* serve(host, path): [url, ctype, length, key, exc]; url = NoneVal is the
\* (None, None, None, None) of line 463, exc a raised exception (a failed
\* assertion, the unpacking of a short record, None < int); key names the
\* blob behind contentStream ("" for none)
serve(host, path) ==
    LET m    == canon.mirror[<<host, path>>]
        miss == [url |-> NoneVal, ctype |-> "", length |-> 0, key |-> "", exc |-> FALSE]
        boom == [url |-> NoneVal, ctype |-> "", length |-> 0, key |-> "", exc |-> TRUE]
    IN  IF m.hostName = Raised THEN boom
        ELSE IF m.hostName = NoneVal \/ m.hostName = "" THEN miss
        ELSE LET dir == ReadLocation(m.hostName)
                 rec == loadURL(dir, m.urlHash)
             IN  IF Len(rec) # 4 THEN boom
                 ELSE IF rec[1] = NoneVal THEN miss
                 ELSE LET contentLength == StrToNat(rec[3], 0)
                          contentHash   == rec[4]
                          gzipped       == EndsWith(contentHash, GZIP_SUFFIX)
                          contentSize   == loadDataSize(dir, contentHash)
                          hit == [url |-> rec[1], ctype |-> rec[2],
                                  length |-> contentLength, key |-> contentHash,
                                  exc |-> FALSE]
                      IN  IF contentLength = 0
                          THEN IF contentHash = ZERO_HASH
                               THEN [hit EXCEPT !.key = ""] ELSE boom
                          ELSE IF Len(contentHash) #
                                    DigestHexLen + (IF gzipped THEN Len(GZIP_SUFFIX) ELSE 0)
                               THEN boom
                          ELSE IF contentSize < 0 THEN boom
                          ELSE IF gzipped
                               THEN IF contentSize < contentLength THEN hit ELSE boom
                               ELSE IF contentSize = contentLength THEN hit ELSE boom

\* whether serve finds for the request a record whose blob is missing or not
\* the complete file
Degraded(host, path) ==
    LET m == canon.mirror[<<host, path>>]
    IN  /\ m.hostName # NoneVal /\ m.hostName # ""
        /\ LET dir == ReadLocation(m.hostName)
               rec == loadURL(dir, m.urlHash)
           IN  /\ Len(rec) = 4 /\ rec[1] # NoneVal /\ rec[4] # ZERO_HASH
               /\ LET k == <<dir[1], dir[2], rec[4]>>
                  IN  \/ k \notin DOMAIN data
                      \/ data[k].size # FullSize(data[k].body, data[k].gz)

\* do_GET for Host header host and request path: the response
do_GET(host, path) ==
    IF canon.root[<<host, path>>]
    THEN [NoResp EXCEPT !.status = 200, !.kind = "index", !.index = listURLs]
    ELSE LET r == serve(host, path)
             d == Degraded(host, path)
         IN  IF r.exc
             THEN [NoResp EXCEPT !.kind = "error", !.exc = TRUE, !.degraded = d]
             ELSE IF r.url = NoneVal
             THEN [NoResp EXCEPT !.status = 404, !.kind = "notfound", !.degraded = d]
             ELSE IF r.length = 0
             THEN [NoResp EXCEPT !.status = 200, !.kind = "empty", !.url = r.url,
                                 !.ctype = r.ctype, !.degraded = d]
             ELSE LET dir  == ReadLocation(canon.mirror[<<host, path>>].hostName)
                      blob == data[<<dir[1], dir[2], r.key>>]
                      \* the stream is read to its end: a gzip file cut short
                      \* raises or gives fewer bytes than contentLength
                      whole == blob.size = FullSize(blob.body, blob.gz)
                  IN  [NoResp EXCEPT !.status = 200, !.kind = "page", !.url = r.url,
                                     !.ctype = r.ctype, !.length = r.length,
                                     !.body = IF whole THEN blob.body ELSE "",
                                     !.exc = ~whole, !.degraded = d]

\* a GET request is handled
DoGet ==
    /\ \E q \in canon.reqs : resp' = do_GET(q[1], q[2])
    /\ UNCHANGED <<canon, law, srv, today, fsVars, pc, batch, runs, loc, urlCache, left, rc,
                   localVars, failed, outcome, latestAtStart, committed, completed>>

Next ==
    \/ Run \/ Crawl \/ PopenFails \/ Yield \/ StreamEnd \/ Fetch \/ Probe
    \/ Write \/ Record \/ Unlink \/ Symlink \/ Tick \/ DoGet

Spec == Init /\ [][Next]_vars

(***************************************************************************)
(* The canonicalizer on its own: processOriginalURL, processHostName and   *)
(* processMirrorURL applied to URLs put together from components.          *)
(***************************************************************************)
MaxVary == 2

\* the components a URL is written with
Parts ==
    [scheme   |-> {"http", "HTTP", "https"},
     user     |-> {"", "user@"},
     www      |-> {"", "www."},
     host     |-> {"some.host.com", "Some.Host.com", "https.some.host.com",
                   "10.0.0.1"},
     port     |-> {"", ":0", ":80", ":8080"},
     path     |-> {"", "/", "/a", "/a/"},
     query    |-> {"", "?", "?x=1"},
     fragment |-> {"", "#", "#f"}]

\* the URLs the pairs start from
BaseParts ==
    [scheme : {"http", "https"}, user : {""}, www : {""},
     host : {"some.host.com", "https.some.host.com", "10.0.0.1"},
     port : {"", ":8080"}, path : {"", "/a"}, query : {"", "?x=1"},
     fragment : {"", "#f"}]

\* the URL string written with the components c
URLOf(c) ==
    c.scheme \o "://" \o c.user \o c.www \o c.host \o c.port \o c.path
             \o c.query \o c.fragment

\* number of components a and b are written differently in
Dist(a, b) == Cardinality({f \in DOMAIN Parts : a[f] # b[f]})

CanonInit ==
    /\ CrawlerInit
    /\ \E c \in BaseParts :
          law = [stage |-> "input", a |-> c, b |-> c, ida |-> "", idb |-> "",
                 host |-> "", back |-> [hostName |-> "", urlHash |-> ""]]
    /\ srv = NoSrv

\* the second URL of the pair is written differently in one more component
Vary ==
    /\ law.stage = "input"
    /\ \E f \in DOMAIN Parts : \E v \in Parts[f] :
          /\ v # law.b[f]
          /\ Dist(law.a, [law.b EXCEPT ![f] = v]) <= MaxVary
          /\ law' = [law EXCEPT !.b = [law.b EXCEPT ![f] = v]]
    /\ UNCHANGED <<crawlVars, srv>>

\* the identities of both URLs; the mirror host name of the second one and
\* what the serving side makes of a request to that host under the mirror
\* suffix, with the path and query the URL is written with
ApplyCanon ==
    /\ law.stage = "input"
    /\ law' = Bind(URLOf(law.b), LAMBDA ub :
              Bind(processHostName(ub), LAMBDA h :
                  [law EXCEPT !.stage = "applied",
                              !.ida = processOriginalURL(URLOf(law.a)),
                              !.idb = processOriginalURL(ub),
                              !.host = h,
                              !.back = processMirrorURL(MirrorSuffix,
                                           h \o "." \o MirrorSuffix,
                                           law.b.path \o law.b.query)]))
    /\ UNCHANGED <<crawlVars, srv>>

CanonNext == Vary \/ ApplyCanon

SpecCanon == CanonInit /\ [][CanonNext]_vars

(***************************************************************************)
(* The serving process step by step: HTTPServer.serve_forever, do_GET and  *)
(* serve with the one database object, whose setLocation the handler calls *)
(* before it reads.                                                        *)
(***************************************************************************)
MaxRequests == 2

Slots == 1..MaxRequests

\* pages of two mirrored hosts
ServedPages == {"http://www.some.host.com/index.html", "https://some.host.com/a"}

\* contentHash downloadURL records for body b (lines 310, 329, 332)
StoredHash(b) ==
    IF b.len = 0 THEN ZERO_HASH
    ELSE IF Gzipped(b.len, b.zip) THEN b.md5 \o GZIP_SUFFIX ELSE b.md5

\* the record files and the blob files of a database in which each page of
\* ServedPages was crawled on day 1 with the response pick[page] and marked
\* latest
StoreUrls(pick) ==
    LET k(u) == <<processHostName(u), 1, canon.hash[u]>>
    IN  [x \in {k(u) : u \in ServedPages} |->
            LET u == CHOOSE v \in ServedPages : k(v) = x
                b == BodyOf(pick[u].body)
            IN  <<u, pick[u].ctype, NatToStr(b.len), StoredHash(b)>>]

StoreData(pick) ==
    LET full == {u \in ServedPages : BodyOf(pick[u].body).len # 0}
        k(u) == <<processHostName(u), 1, StoredHash(BodyOf(pick[u].body))>>
    IN  [x \in {k(u) : u \in full} |->
            LET u == CHOOSE v \in full : k(v) = x
                b == BodyOf(pick[u].body)
            IN  [body |-> b.name, gz |-> Gzipped(b.len, b.zip),
                 size |-> FullSize(b.name, Gzipped(b.len, b.zip))]]

ServeInit ==
    /\ ProcInit
    /\ law = NoLaw
    /\ \E pick \in [ServedPages -> Responses] :
          /\ urls = StoreUrls(pick)
          /\ data = StoreData(pick)
    /\ latest = [h \in {processHostName(u) : u \in ServedPages} |-> 1]
    /\ lastMod = latest
    /\ \E qs \in [Slots -> canon.reqs] :
          srv = [targetDir |-> "",
                 h |-> [i \in Slots |-> [pc |-> "wait", q |-> qs[i],
                                         rec |-> NoRec, resp |-> NoResp]]]

\* serve_forever (line 585): HTTPServer handles a request to its end before
\* it accepts the next one
CanAccept_threaded(i) == TRUE
CanAccept(i) == \A j \in Slots \ {i} : srv.h[j].pc \in {"wait", "done"}

Answer(i, r) ==
    srv' = [srv EXCEPT !.h[i].pc = "done", !.h[i].resp = r]

Failed == [NoResp EXCEPT !.kind = "error", !.exc = TRUE]

NotFound == [NoResp EXCEPT !.status = 404, !.kind = "notfound"]

\* the request is accepted and do_GET runs up to serve's setLocation (lines
\* 533-535, 442-444): the root page is answered at once
Accept(i) ==
    /\ srv.h[i].pc = "wait"
    /\ CanAccept(i)
    /\ LET q == srv.h[i].q
           m == canon.mirror[q]
       IN  IF canon.root[q]
           THEN Answer(i, [NoResp EXCEPT !.status = 200, !.kind = "index",
                                         !.index = listURLs])
           ELSE IF m.hostName = Raised THEN Answer(i, Failed)
           ELSE IF m.hostName = NoneVal \/ m.hostName = "" THEN Answer(i, NotFound)
           ELSE srv' = [srv EXCEPT !.targetDir = m.hostName, !.h[i].pc = "url"]
    /\ UNCHANGED <<crawlVars, law>>

\* serve lines 445-451: loadURL in the database's targetDir
LoadURL(i) ==
    /\ srv.h[i].pc = "url"
    /\ LET m   == canon.mirror[srv.h[i].q]
           rec == loadURL(ReadLocation(srv.targetDir), m.urlHash)
       IN  IF Len(rec) # 4 THEN Answer(i, Failed)
           ELSE IF rec[1] = NoneVal THEN Answer(i, NotFound)
           ELSE IF StrToNat(rec[3], 0) = 0
           THEN IF rec[4] = ZERO_HASH
                THEN Answer(i, [NoResp EXCEPT !.status = 200, !.kind = "empty",
                                              !.url = rec[1], !.ctype = rec[2]])
                ELSE Answer(i, Failed)
           ELSE IF Len(rec[4]) # DigestHexLen
                        + (IF EndsWith(rec[4], GZIP_SUFFIX) THEN Len(GZIP_SUFFIX) ELSE 0)
           THEN Answer(i, Failed)
           ELSE srv' = [srv EXCEPT !.h[i].pc = "data", !.h[i].rec = rec]
    /\ UNCHANGED <<crawlVars, law>>

\* serve lines 452-462 and do_GET lines 547-561: loadData in the database's
\* targetDir, the size assertions, the stream sent to its end
LoadData(i) ==
    /\ srv.h[i].pc = "data"
    /\ LET rec  == srv.h[i].rec
           dir  == ReadLocation(srv.targetDir)
           k    == <<dir[1], dir[2], rec[4]>>
           len  == StrToNat(rec[3], 0)
           size == loadDataSize(dir, rec[4])
           ok   == IF EndsWith(rec[4], GZIP_SUFFIX) THEN size < len ELSE size = len
       IN  IF size < 0 \/ ~ok THEN Answer(i, Failed)
           ELSE LET whole == data[k].size = FullSize(data[k].body, data[k].gz)
                IN  Answer(i, [NoResp EXCEPT !.status = 200, !.kind = "page",
                                   !.url = rec[1], !.ctype = rec[2], !.length = len,
                                   !.body = IF whole THEN data[k].body ELSE "",
                                   !.exc = ~whole])
    /\ UNCHANGED <<crawlVars, law>>

ServeNext == \E i \in Slots : Accept(i) \/ LoadURL(i) \/ LoadData(i)

SpecServe == ServeInit /\ [][ServeNext]_vars

(***************************************************************************)
(* The crawler ingesting bodies of sizes at the limits of the compression  *)
(* decision of downloadURL (lines 310-330).                                *)
(***************************************************************************)
\* what requests.get may answer here: any of the bodies
SizedResponses == {[ctype |-> "text/html", body |-> b.name] : b \in Bodies}

\* downloadURL lines 286-302, as Fetch, for SizedResponses
FetchSized ==
    /\ pc = "fetch"
    /\ \E r \in SizedResponses : fetched' = r
    /\ pc' = "data"
    /\ UNCHANGED <<batch, failed, outcome, urlCache, cur, chash, old, saved,
                   dataSize>>
    /\ UNCHANGED <<canon, law, srv, today, fsVars, runs, loc, left, rc, latestAtStart,
                   committed, completed>>
    /\ resp' = NoResp

IngestNext ==
    \/ Run \/ Crawl \/ Yield \/ FetchSized \/ Probe \/ Write \/ Record

SpecIngest == Init /\ [][IngestNext]_vars

(***************************************************************************)
(* Properties.                                                             *)
(***************************************************************************)
\* the steps of crawl's loop (lines 420-423)
InLoop == pc \in {"next", "fetch", "data", "write", "record"}

\* the record file downloadURL loads for the URL it is ingesting (line 335)
CurRec == loadURL(loc, canon.hash[cur])

\* the record the ingestion in progress writes if it calls saveURL (line 340)
NewRec == <<cur, fetched.ctype, NatToStr(BodyOf(fetched.body).len), chash>>

\* C1: a URL whose processing fails does not end the run: while the stream
\* still has URLs to yield after the failed one, the run goes on to them.
C1_FailureContained ==
    (failed = "url" /\ left > 0) => outcome = "running"

\* C2: a run ended early by a failure never performs markLatest: during the
\* loop of a run and after a run that was aborted, the host's latest link is
\* what it was when the run started.
C2_FailedRunKeepsLatest ==
    (outcome = "aborted" \/ (outcome = "running" /\ InLoop))
        => latest[loc[1]] = latestAtStart

\* an aborted run that had committed a record to a new snapshot while the
\* link names an older one
C2_Witness ==
    /\ outcome = "aborted" /\ failed = "url"
    /\ latestAtStart # 0 /\ loc[2] # latestAtStart
    /\ \E k \in DOMAIN urls : k[1] = loc[1] /\ k[2] = loc[2] /\ Len(urls[k]) = 4

\* C3: when the discovery stream ends with a non-zero exit status the run is
\* aborted: it is not completed by markLatest and the host's latest link
\* stays what it was when the run started.
C3_FatalSourceAborts ==
    rc # 0 => (outcome # "completed" /\ latest[loc[1]] = latestAtStart)

\* C4: a URL record that holds non-empty content (its content hash is not
\* ZERO_HASH) is changed by no step: neither an ingestion with different
\* non-empty content nor one with an empty body overwrites it.
C4_FirstSeenWins ==
    [][\A k \in DOMAIN urls :
          (Len(urls[k]) = 4 /\ urls[k][4] # ZERO_HASH)
              => (k \in DOMAIN urls' /\ urls'[k] = urls[k])]_vars

\* an ingestion of another URL of the identity, with other content, has
\* returned and kept the non-empty record it found
C4_Witness ==
    /\ pc = "next" /\ cur # "" /\ ~saved
    /\ old[1] # NoneVal /\ old[4] # ZERO_HASH
    /\ old[1] # cur /\ old[4] # chash
    /\ loadURL(loc, canon.hash[cur]) = old

\* C5: when the record of the identity holds ZERO_HASH and a URL of that
\* identity is ingested with a non-empty body, the ingestion that returns
\* leaves the record with its own URL, content type, length and content hash.
C5_EmptyRecordOverwritten ==
    [][(/\ pc = "record" /\ pc' = "next"
        /\ Len(CurRec) = 4 /\ CurRec[1] # NoneVal /\ CurRec[4] = ZERO_HASH
        /\ chash # ZERO_HASH)
       => (/\ <<loc[1], loc[2], canon.hash[cur]>> \in DOMAIN urls'
           /\ urls'[<<loc[1], loc[2], canon.hash[cur]>>] = NewRec)]_vars

\* an ingestion with a non-empty body has found an empty-page record and
\* returned
C5_Witness ==
    /\ pc = "next" /\ cur # "" /\ saved
    /\ old[1] # NoneVal /\ old[4] = ZERO_HASH
    /\ chash # ZERO_HASH
    /\ loadURL(loc, canon.hash[cur]) = NewRec

\* C6: ingesting a URL again with unchanged content into the same snapshot
\* returns without a record write and leaves every record as it was (the
\* step of downloadURL that finds the record it would write is the step that
\* returns, changes no record and calls no saveURL).
C6_IngestionIdempotent ==
    [][(pc = "record" /\ pc' # "record" /\ CurRec = NewRec)
       => (pc' = "next" /\ urls' = urls /\ saved' = FALSE)]_vars

\* the second ingestion of a URL with the same content has returned
C6_Witness ==
    /\ pc = "next" /\ cur # "" /\ ~saved
    /\ old = NewRec
    /\ loadURL(loc, canon.hash[cur]) = old

\* C7: after a crawl that completed and made the latest link, every URL
\* whose record the run committed is found through the mirror: the request
\* for its mirror host name and its path and query is answered 200 with the
\* record's URL, content type and length.
C7_CommittedResolves ==
    (pc = "idle" /\ outcome = "completed" /\ latest[loc[1]] = loc[2]) =>
        \A u \in committed :
            LET rec == loadURL(loc, canon.hash[u])
                r   == do_GET(canon.req[u][1], canon.req[u][2])
            IN  /\ r.status = 200 /\ ~r.exc
                /\ r.url = rec[1] /\ r.ctype = rec[2]
                /\ r.length = StrToNat(rec[3], 0)

\* C8: once a crawl of a host has completed with its latest link made, the
\* host has a latest link in every later state.
C8_ExactlyOneLatest ==
    \A h \in completed : latest[h] # 0

\* C9: when a crawl has returned from markLatest and its host has a snapshot
\* directory and no latest link, a request for a URL recorded in the snapshot
\* directory modified last is not a miss.
C9_FallbackToLastModified ==
    \A q \in canon.reqs :
        LET m == canon.mirror[q]
        IN  (/\ pc = "idle" /\ outcome = "completed"
             /\ m.hostName \in DOMAIN latest
             /\ latest[m.hostName] = 0 /\ lastMod[m.hostName] # 0
             /\ LET rec == loadURL(<<m.hostName, lastMod[m.hostName]>>, m.urlHash)
                IN  Len(rec) = 4 /\ rec[1] # NoneVal)
            => (serve(q[1], q[2]).exc \/ serve(q[1], q[2]).url # NoneVal)

\* C10: a request whose record has its blob missing or not of the complete
\* size is answered 404, and no exception or failed assertion leaves the
\* handler.
C10_NoInternalFailure ==
    resp.degraded => (resp.status = 404 /\ ~resp.exc)

\* C11: a crawl that fails for one start URL does not stop the batch: every
\* step that takes a start URL off the batch leaves all the start URLs after
\* it, in their order, to be crawled next.
C11_BatchContinues ==
    [][(batch # <<>> /\ batch' # batch) => batch' = Tail(batch)]_vars

\* C12: the index listing is the answer only when the Host (port removed) is
\* the bare mirror suffix; a request whose Host does not end with the mirror
\* suffix is answered 404, and so is a request for a mirror host under the
\* suffix that the database does not know.
C12_RequestMapping ==
    \A q \in canon.reqs :
        LET r == do_GET(q[1], q[2])
            h == HostOnly(q[1])
        IN  /\ r.kind = "index" => h = MirrorSuffix
            /\ ~EndsWith(h, MirrorSuffix) => r.status = 404
            /\ (/\ EndsWith(h, MirrorSuffix) /\ h # MirrorSuffix
                /\ canon.mirror[q].hostName \notin DOMAIN latest) => r.status = 404

\* C13: round trip. For every URL without a fragment, the request for the
\* URL's mirror host name under the mirror suffix, with the URL's path and
\* query, is resolved to the identity processOriginalURL gives the URL.
C13_RoundTrip ==
    (law.stage = "applied" /\ law.b.fragment \in {"", "#"})
        => law.back.urlHash = law.idb

\* what the claim's list of immaterial differences leaves of a URL's
\* components: the scheme and the host in lower case, no explicit default
\* port, no '?' or '#' without a query or a fragment, no trailing '/' when
\* there is neither a query nor a fragment
EffScheme(c) == StrLower(c.scheme)
EffHost(c)   == StrLower(c.host)
EffPort(c) ==
    IF c.port # "" /\ StrToNat(DropFirst(c.port, 1), 0) = StandardPort(EffScheme(c))
    THEN "" ELSE c.port
EffQuery(c)    == IF c.query = "?" THEN "" ELSE c.query
EffFragment(c) == IF c.fragment = "#" THEN "" ELSE c.fragment
EffPath(c) ==
    IF EffQuery(c) = "" /\ EffFragment(c) = "" /\ EndsWith(c.path, "/")
    THEN DropLast(c.path, 1) ELSE c.path

\* a and b differ in scheme, non-default port, path, query or fragment
Differ(a, b) ==
    \/ EffScheme(a) # EffScheme(b)
    \/ EffPort(a) # EffPort(b)
    \/ EffPath(a) # EffPath(b)
    \/ EffQuery(a) # EffQuery(b)
    \/ EffFragment(a) # EffFragment(b)

\* C14: two URLs that differ only in scheme case, host case, an explicit
\* default port, a leading www., user-info, a trailing '?' or '#' or a
\* trailing '/' with no query and no fragment have the same identity; two URLs
\* that differ in scheme, non-default port, path, query or fragment have
\* different identities.
C14_IdentityIffEquivalent ==
    law.stage = "applied" =>
        /\ (~Differ(law.a, law.b) /\ EffHost(law.a) = EffHost(law.b))
              => law.ida = law.idb
        /\ Differ(law.a, law.b) => law.ida # law.idb

\* every request that finds a record of length 0 in the snapshot it reads is
\* answered with the record's URL and content type and without a stream
EmptyResolves ==
    \A q \in canon.reqs :
        LET m == canon.mirror[q]
        IN  (m.hostName \notin {NoneVal, "", Raised} /\ ~canon.root[q]) =>
                LET rec == loadURL(ReadLocation(m.hostName), m.urlHash)
                IN  (Len(rec) = 4 /\ rec[3] = "0") =>
                        /\ serve(q[1], q[2]) =
                               [url |-> rec[1], ctype |-> rec[2], length |-> 0,
                                key |-> "", exc |-> FALSE]
                        /\ Bind(do_GET(q[1], q[2]), LAMBDA g :
                               /\ g.status = 200 /\ g.kind = "empty" /\ g.body = ""
                               /\ g.url = rec[1] /\ g.ctype = rec[2] /\ ~g.exc)

\* C15: the ingestion of an empty body writes no blob; the record it commits
\* has length 0 and the ZERO_HASH content hash; a request that resolves to
\* such a record gets the URL and the content type and no body stream.
C15_EmptyBody ==
    /\ [][/\ (pc \in {"data", "record"} /\ BodyOf(fetched.body).len = 0)
                 => (data' = data /\ pc' # "write")
          /\ (/\ pc = "record" /\ pc' = "next" /\ saved'
              /\ BodyOf(fetched.body).len = 0)
                 => urls'[<<loc[1], loc[2], canon.hash[cur]>>]
                        = <<cur, fetched.ctype, "0", ZERO_HASH>>]_vars
    /\ []EmptyResolves

\* an empty page was crawled, recorded without any blob, and is served
C15_Witness ==
    /\ resp.kind = "empty" /\ resp.status = 200 /\ resp.url \in StreamURLs
    /\ data = <<>>

\* C16: when the blob of the body being ingested is already in the snapshot
\* with its full size, stored plain or compressed, the ingestion leaves the
\* blob files as they are.
C16_PresentBlobKept ==
    [][(/\ pc = "data"
        /\ LET b  == BodyOf(fetched.body)
               gz == Gzipped(b.len, b.zip)
               k  == <<loc[1], loc[2], IF gz THEN b.md5 \o GZIP_SUFFIX ELSE b.md5>>
           IN  /\ b.len # 0
               /\ k \in DOMAIN data
               /\ data[k].size = FullSize(b.name, gz))
          => data' = data]_vars

\* C17: at every moment, also while an ingestion is writing, the blob that
\* serve opens for a record of the snapshot it reads is the complete file
\* (or there is no file): never a file cut short.
C17_NoPartialBlobServed ==
    \A q \in canon.reqs :
        LET m == canon.mirror[q]
        IN  (m.hostName \notin {NoneVal, "", Raised} /\ ~canon.root[q]) =>
                LET dir == ReadLocation(m.hostName)
                    rec == loadURL(dir, m.urlHash)
                IN  (Len(rec) = 4 /\ rec[1] # NoneVal /\ rec[4] # ZERO_HASH) =>
                        LET k == <<dir[1], dir[2], rec[4]>>
                        IN  k \in DOMAIN data =>
                                data[k].size = FullSize(data[k].body, data[k].gz)

\* C18: the snapshot a crawl opens is fresh: at the step that starts the
\* crawl, the directory of its host and time stamp holds no record and no
\* blob of an earlier crawl.
C18_FreshSnapshot ==
    [][(pc = "idle" /\ pc' = "next")
          => ~SnapshotExists(loc'[1], loc'[2])]_vars

Alone(q) == [do_GET(q[1], q[2]) EXCEPT !.degraded = FALSE]

\* C19: whatever the order in which the server takes up the requests sent to
\* it, each request is answered as it would be if it were the only one.
C19_AnsweredAsAlone ==
    \A i \in DOMAIN srv.h :
        srv.h[i].pc = "done" => srv.h[i].resp = Alone(srv.h[i].q)

\* two requests for pages of different mirrored hosts were sent together and
\* both are answered with their page
C19_Witness ==
    /\ DOMAIN srv.h = Slots
    /\ \A i \in Slots :
          /\ srv.h[i].pc = "done"
          /\ srv.h[i].resp.status = 200
          /\ srv.h[i].resp.kind \in {"page", "empty"}
    /\ canon.mirror[srv.h[1].q].hostName # canon.mirror[srv.h[2].q].hostName

\* the blob file the ingestion in progress stores its body in (lines 310-330)
BlobKey == <<loc[1], loc[2], StoredHash(BodyOf(fetched.body))>>

\* number of bytes of the complete blob file of the body being ingested
BlobFull ==
    LET b == BodyOf(fetched.body)
    IN  FullSize(b.name, Gzipped(b.len, b.zip))

\* C21: a blob of the content being ingested that is in the store with a
\* size other than the expected one is not taken for stored, and an ingestion
\* that gets past the storing of the body leaves the blob with the expected
\* size.
C21_DamagedBlobOverwritten ==
    /\ [][(/\ pc = "data" /\ BodyOf(fetched.body).len # 0
           /\ BlobKey \in DOMAIN data
           /\ data[BlobKey].size # BlobFull) => pc' # "record"]_vars
    /\ []((pc = "record" /\ BodyOf(fetched.body).len # 0) =>
              /\ chash = BlobKey[3]
              /\ BlobKey \in DOMAIN data
              /\ data[BlobKey].size = BlobFull)

\* the ingestion found the blob with a wrong size (DAMAGED, OVERWRITING) and
\* has written it again in full
C21_Witness ==
    /\ pc = "record"
    /\ dataSize >= 0 /\ dataSize # BodyOf(fetched.body).len
    /\ data[BlobKey].size = BlobFull

\* the claim's rule for the body being ingested: compressed exactly when
\* L >= 513 and Z * 100 < L * 90
RuleGz ==
    LET b == BodyOf(fetched.body)
    IN  b.len >= 513 /\ b.zip * 100 < b.len * 90

\* the blob name the rule gives the body being ingested
RuleKey ==
    LET b == BodyOf(fetched.body)
    IN  IF RuleGz THEN b.md5 \o ".gz" ELSE b.md5

\* C22: a body that is saved is written to the file hash.gz, compressed, when
\* L >= 513 and Z * 100 < L * 90 and to the file of the bare hash,
\* uncompressed, otherwise, and to no other file; the record written for the
\* URL carries the name the blob is stored under.
C22_CompressionDecision ==
    [][/\ (pc = "data" /\ pc' = "write") =>
              LET K == <<loc[1], loc[2], RuleKey>>
              IN  /\ chash' = RuleKey
                  /\ K \in DOMAIN data'
                  /\ \A k \in DOMAIN data' \ {K} :
                        k \in DOMAIN data /\ data'[k] = data[k]
       /\ (pc = "write" /\ pc' = "record") =>
              LET K == <<loc[1], loc[2], RuleKey>>
                  b == BodyOf(fetched.body)
              IN  /\ data'[K].gz = RuleGz
                  /\ data'[K].size = IF RuleGz THEN b.zip ELSE b.len
       /\ (/\ pc = "record" /\ pc' = "next" /\ saved'
           /\ BodyOf(fetched.body).len # 0) =>
              /\ urls'[<<loc[1], loc[2], canon.hash[cur]>>][4] = RuleKey
              /\ <<loc[1], loc[2], RuleKey>> \in DOMAIN data]_vars

\* a body of 513 bytes that compresses to 461 was stored compressed and
\* recorded under hash.gz
C22_Witness ==
    /\ pc = "next" /\ saved /\ fetched.body = "b513"
    /\ LET k   == <<loc[1], loc[2], canon.hash[cur]>>
           rec == urls[k]
       IN  /\ EndsWith(rec[4], GZIP_SUFFIX)
           /\ data[<<loc[1], loc[2], rec[4]>>].size = 461

\* C23: in every state, every record with a non-zero length names a blob
\* file of its snapshot whose size is the recorded length when the name has
\* no .gz suffix and less than it when it has, and serve raises for no
\* request that finds such a record.
C23_RecordsHaveBlobs ==
    /\ \A k \in DOMAIN urls :
          LET rec == urls[k]
          IN  (Len(rec) = 4 /\ rec[3] # "0") =>
                  LET d == <<k[1], k[2], rec[4]>>
                  IN  /\ d \in DOMAIN data
                      /\ IF EndsWith(rec[4], ".gz")
                         THEN data[d].size < StrToNat(rec[3], 0)
                         ELSE data[d].size = StrToNat(rec[3], 0)
    /\ \A q \in canon.reqs :
          LET m == canon.mirror[q]
          IN  (m.hostName \notin {NoneVal, "", Raised} /\ ~canon.root[q]) =>
                  LET rec == loadURL(ReadLocation(m.hostName), m.urlHash)
                  IN  (Len(rec) = 4 /\ rec[1] # NoneVal /\ rec[3] # "0")
                          => ~serve(q[1], q[2]).exc

\* a later ingestion into the snapshot failed and ended its crawl; the
\* snapshot holds a record of an uncompressed and a record of a compressed
\* blob
C23_Witness ==
    /\ pc = "idle" /\ outcome = "aborted" /\ failed = "url"
    /\ \E k \in DOMAIN urls :
          /\ Len(urls[k]) = 4 /\ urls[k][3] # "0"
          /\ ~EndsWith(urls[k][4], GZIP_SUFFIX)
    /\ \E k \in DOMAIN urls :
          /\ Len(urls[k]) = 4
          /\ EndsWith(urls[k][4], GZIP_SUFFIX)
          /\ data[<<k[1], k[2], urls[k][4]>>].size
                 < FullSize(data[<<k[1], k[2], urls[k][4]>>].body, TRUE)

\* C24: a step at which the ingestion of a URL fails leaves the record files
\* of the snapshot as they were (no other step of a failing ingestion writes
\* records).
C24_FailedIngestionKeepsRecords ==
    [][(pc \in {"fetch", "data", "write", "record"} /\ failed' = "url")
          => urls' = urls]_vars

=============================================================================
